---- MODULE Spec2Model ----
(***************************************************************************)
(* Credential rotation of image_generator.py: main() walks the configured  *)
(* API keys, probes each one (test_api_key), runs the production loop      *)
(* (generate_with_key) and checkpoints to progress.json (save_progress /   *)
(* load_progress).  The process may be interrupted and run again.          *)
(***************************************************************************)
EXTENDS Integers, Sequences, FiniteSets, TLC

\* ------------------------------------------------------------------ bounds
MaxRuns == 2        \* process runs (first run plus restarts) explored
MaxFaults == 1      \* checkpoint writes that raise, over a behaviour
MaxCalls == 20      \* production calls explored in one stand-alone run of generate_with_key
MaxOkCalls == 46    \* production calls explored in a run whose calls all return

\* ------------------------------------------------------- program constants
InitialSleep == 8
RequestsPerStep == 15
SleepIncrement == 7
ErrorSleepCap == 60
MaxConsecutiveErrors == 5
DefaultMaxImages == 500
MinImages == 50

\* ------------------------------------------------------------- error texts
\* An error text is the sequence of the characters of str(e).
TxtQuota == <<"Q", "u", "o", "t", "a">>
Txt429 == <<"4", "2", "9">>
TxtTimeout == <<"t", "i", "m", "e", "o", "u", "t">>
TxtThrottle == <<"T", "h", "r", "o", "t", "t", "l", "e">>
TxtExceeded == <<"E", "x", "c", "e", "e", "d", "e", "d">>
ErrorTexts == {TxtQuota, Txt429, TxtTimeout, TxtThrottle, TxtExceeded}

\* str.lower(), character by character
LowerChar(c) ==
    CASE c = "Q" -> "q"
      [] c = "E" -> "e"
      [] c = "T" -> "t"
      [] OTHER -> c

Lower(text) == [n \in 1..Len(text) |-> LowerChar(text[n])]

\* keyword in error_msg
Contains(text, kw) ==
    \E n \in 1..(Len(text) - Len(kw) + 1) : SubSeq(text, n, n + Len(kw) - 1) = kw

\* the list at line 129
Keywords ==
    { <<"q", "u", "o", "t", "a">>,
      <<"l", "i", "m", "i", "t">>,
      <<"r", "a", "t", "e">>,
      <<"e", "x", "c", "e", "e", "d", "e", "d">>,
      <<"4", "2", "9">> }

\* (variant: the keywords are looked for in str(e) as it is)
IsQuotaErrorCaseSensitive(text) == \E kw \in Keywords : Contains(text, kw)

\* any(keyword in error_msg for keyword in [...]) on error_msg = str(e).lower()
IsQuotaError(text) == \E kw \in Keywords : Contains(Lower(text), kw)

\* --------------------------------------------------------- the API stub
\* One call of client.models.generate_content either returns a response with
\* a number of inline_data (image) parts or raises an error with a text.
Resp(n) == [kind |-> "response", parts |-> n, text |-> <<>>]
Err(t) == [kind |-> "error", parts |-> 0, text |-> t]

\* A deterministic stub of one credential: whether genai.Client(api_key) can be
\* built, what the probe call does, and what the n-th production call of a run
\* does (script, then tail for ever).
Profile(c, p, s, t) == [client_ok |-> c, probe |-> p, script |-> s, tail |-> t]

Profiles ==
    { Profile(TRUE, Resp(1), <<Resp(10)>>, Err(TxtQuota)),
      Profile(TRUE, Resp(1), <<Resp(50)>>, Err(Txt429)),
      Profile(TRUE, Err(TxtTimeout), <<Resp(50)>>, Err(TxtTimeout)),
      Profile(TRUE, Resp(0), <<>>, Resp(250)),
      Profile(TRUE, Resp(1), <<>>, Err(TxtTimeout)),
      Profile(TRUE, Err(Txt429), <<>>, Resp(1)),
      Profile(FALSE, Resp(1), <<>>, Resp(1)) }

\* the stub of a secret that is not among the configured keys
UnusedProfile == Profile(FALSE, Resp(1), <<>>, Resp(1))

StubCall(profile, n) ==
    IF n <= Len(profile.script) THEN profile.script[n] ELSE profile.tail

Secrets == {"sA", "sB"}
KeyLists == { <<"sA">>, <<"sA", "sB">>, <<"sA", "sA">> }

\* -------------------------------------------------------------- checkpoint
DefaultProgress ==
    [ current_key_index |-> 0,
      total_images_generated |-> 0,
      images_per_key |-> <<>>,
      exhausted_keys |-> <<>> ]

\* progress.json on disk: absent, truncated / half written, or a complete dump
NoFile == [state |-> "absent", content |-> DefaultProgress]
Partial == [state |-> "partial", content |-> DefaultProgress]
Complete(p) == [state |-> "complete", content |-> p]

\* load_progress: the parsed file, or the defaults when the file is missing or
\* json.load raises
load_progress(f) == IF f.state = "complete" THEN f.content ELSE DefaultProgress

\* the record save_progress dumps (last_updated, a wall-clock stamp, left out)
Checkpoint(key_index, total_images, key_images, exhausted_keys) ==
    [ current_key_index |-> key_index,
      total_images_generated |-> total_images,
      images_per_key |-> key_images,
      exhausted_keys |-> exhausted_keys ]

\* key_name = f"key_{i+1}"
KeyName(idx) == <<"key", idx + 1>>

\* d[k] = v on a dict
DictSet(d, k, v) == [x \in (DOMAIN d) \cup {k} |-> IF x = k THEN v ELSE d[x]]

Range(s) == { s[n] : n \in DOMAIN s }

RECURSIVE SumOver(_, _)
SumOver(d, ks) ==
    IF ks = {} THEN 0
    ELSE LET k == CHOOSE x \in ks : TRUE IN d[k] + SumOver(d, ks \ {k})

\* sum(images_per_key.values())
SumValues(d) == SumOver(d, DOMAIN d)

Min(a, b) == IF a < b THEN a ELSE b
Max(a, b) == IF a > b THEN a ELSE b

\* ------------------------------------------------------------------ state
VARIABLES
    all_keys,            \* GEN_KEYS.split(): the configured secrets, in order
    stub,                \* the API behind each secret (fixed over a behaviour)
    file,                \* progress.json
    output_files,        \* number of *.jpg files in output/
    output_dir,          \* the gen_<n>.jpg files in output/
    saved_images,        \* calls of image.save made so far, over all runs
    pc,                  \* position of the running process in main
    runs,                \* number of the current process run
    history,             \* how each earlier run ended: "done" or "stopped"
    faults,              \* checkpoint writes that raised so far
    progress,            \* main: the progress dict
    total_images_start,  \* main: *.jpg count at start
    i,                   \* main: loop index
    max_images_per_key,  \* generate_with_key: parameter
    images_generated,    \* generate_with_key: local
    consecutive_errors,  \* generate_with_key: local
    sleep_time,          \* generate_with_key: local
    requests_made,       \* generate_with_key: local
    calls,               \* calls of generate_content made by this run of generate_with_key
    exit_reason,         \* why the while loop was left: "none", "max", "quota", "errors"
    error_sleep,         \* what the last pass of the loop slept at line 139 (0: it did not)
    since_return,        \* calls that raised since the last call that returned
    since_artifact,      \* calls that raised since the last call that returned an image
    waited,              \* seconds slept between the last call and the one before it
    loaded_exhausted,    \* secrets in exhausted_keys of the checkpoint this run loaded
    skipped,             \* secrets the loop skipped at line 175 in this run
    probed,              \* secrets test_api_key was called with in this run
    ran,                 \* secrets generate_with_key was called with in this run
    probe_failed,        \* secrets whose probe returned False in this run
    written_exhausted,   \* members of exhausted_keys of the checkpoints this run wrote
    fatal,               \* what had been probed and run when the handler at line 207 first ran
    last_error,          \* str(e) of the exception the last call raised (<<>>: it returned)
    prev_file,           \* progress.json as it was when the last save_progress began
    new_file             \* the dump the last save_progress was writing

diskVars == <<file, output_files, output_dir, saved_images, prev_file, new_file>>
runVars == <<runs, history, faults>>
mainVars == <<progress, total_images_start, i>>
genVars == <<max_images_per_key, images_generated, consecutive_errors, sleep_time,
             requests_made, calls, exit_reason, error_sleep, since_return,
             since_artifact, waited>>
traceVars == <<loaded_exhausted, skipped, probed, ran, probe_failed, written_exhausted,
               fatal, last_error>>
vars == <<all_keys, stub, pc, diskVars, runVars, mainVars, genVars, traceVars>>

\* ------------------------------------------------- generate_with_key, pure
\* the locals at lines 73-76
InitialLocals ==
    [ images_generated |-> 0, consecutive_errors |-> 0, sleep_time |-> InitialSleep,
      requests_made |-> 0, exit_reason |-> "none", error_sleep |-> 0 ]

\* (variant: the step is taken once, the delay then stays)
ProgressiveSleepOnce(sleep, requests) ==
    IF requests > 0 /\ requests % RequestsPerStep = 0
    THEN InitialSleep + SleepIncrement
    ELSE sleep

\* lines 83-84: the base delay the coming time.sleep(sleep_time) uses
ProgressiveSleep(sleep, requests) ==
    IF requests > 0 /\ requests % RequestsPerStep = 0
    THEN sleep + SleepIncrement
    ELSE sleep

\* (variant: every call that returns clears the count)
ErrorsAfterAnyResponse(errors, image_saved) == 0

\* (variant: the images of this run are numbered from 1)
ImageOrdinalOfRun(start_index, total_files) == total_files - start_index + 1

\* lines 107-108: the n of gen_<n>.jpg, from the *.jpg count of the moment
ImageOrdinal(start_index, total_files) == start_index + total_files + 1

\* The output directory is kept as the set of its maximal runs <<first, last>>
\* of consecutive n for which gen_<n>.jpg exists.
InDir(dir, n) == \E r \in dir : r[1] <= n /\ n <= r[2]

RECURSIVE CountFiles(_)
\* len(fnmatch.filter(os.listdir(output_dir), '*.jpg'))
CountFiles(dir) ==
    IF dir = {} THEN 0
    ELSE LET r == CHOOSE x \in dir : TRUE
         IN  (r[2] - r[1] + 1) + CountFiles(dir \ {r})

\* the directory with gen_<first>.jpg .. gen_<last>.jpg, all new, added
AddFiles(dir, first, last) ==
    LET before == {r \in dir : r[2] = first - 1}
        after == {r \in dir : r[1] = last + 1}
        lo == IF before = {} THEN first ELSE (CHOOSE r \in before : TRUE)[1]
        hi == IF after = {} THEN last ELSE (CHOOSE r \in after : TRUE)[2]
    IN  ((dir \ before) \ after) \cup {<<lo, hi>>}

\* lines 102-115 for a response with n image parts: each part is saved under
\* the name computed from the *.jpg count of the moment (image.save
\* overwrites).  A save under a new name raises the count by one, so the
\* names run on; a save under a name that exists leaves the count as it is,
\* so every later part of the response gets that same name again.
SaveImages(dir, start_index, n) ==
    LET name(j) == ImageOrdinal(start_index, CountFiles(dir) + j - 1)
        taken == {j \in 1..n : InDir(dir, name(j))}
        fresh == IF taken = {} THEN n
                 ELSE (CHOOSE j \in taken : \A k \in taken : j <= k) - 1
    IN  IF fresh = 0 THEN dir ELSE AddFiles(dir, name(1), name(fresh))

\* lines 117-120: the error count after a call that returned
ErrorsAfterResponse(errors, image_saved) == IF image_saved THEN 0 ELSE errors

\* (variant: max in place of min)
ErrorSleepLarger(sleep) == Max(ErrorSleepCap, sleep * 2)

\* line 139: the extra wait after an error
ErrorSleep(sleep) == Min(ErrorSleepCap, sleep * 2)

\* One pass of the while body (lines 81-139) and the loop test that follows it.
GenIteration(loc, max_images, outcome) ==
    LET sleep == ProgressiveSleep(loc.sleep_time, loc.requests_made)
    IN  IF outcome.kind = "response"
        THEN LET images == loc.images_generated + outcome.parts
             IN  [ images_generated |-> images,
                   consecutive_errors |->
                       ErrorsAfterResponse(loc.consecutive_errors, outcome.parts > 0),
                   sleep_time |-> sleep,
                   requests_made |-> loc.requests_made + 1,
                   exit_reason |-> IF images < max_images THEN "none" ELSE "max",
                   error_sleep |-> 0 ]
        ELSE LET errors == loc.consecutive_errors + 1
                 reason == IF IsQuotaError(outcome.text) THEN "quota"
                           ELSE IF errors >= MaxConsecutiveErrors THEN "errors"
                           ELSE "none"
             IN  [ images_generated |-> loc.images_generated,
                   consecutive_errors |-> errors,
                   sleep_time |-> sleep,
                   requests_made |-> loc.requests_made,
                   exit_reason |-> reason,
                   error_sleep |-> IF reason = "none" THEN ErrorSleep(sleep) ELSE 0 ]

\* (variant: the probe's list lacks an entry of the loop's list)
ProbeKeywordsShort ==
    { <<"q", "u", "o", "t", "a">>,
      <<"l", "i", "m", "i", "t">>,
      <<"r", "a", "t", "e">>,
      <<"e", "x", "c", "e", "e", "d", "e", "d">> }

\* the list at line 65
ProbeKeywords ==
    { <<"q", "u", "o", "t", "a">>,
      <<"l", "i", "m", "i", "t">>,
      <<"r", "a", "t", "e">>,
      <<"e", "x", "c", "e", "e", "d", "e", "d">>,
      <<"4", "2", "9">> }

\* test_api_key (lines 50-69)
test_api_key(outcome) ==
    IF outcome.kind = "response" THEN TRUE
    ELSE ~(\E kw \in ProbeKeywords : Contains(Lower(outcome.text), kw))

\* ----------------------------------------------------------------- main, pure
\* (variant: the first entry of the list is not looked at)
IsExhaustedOffByOne(key, prog) ==
    prog.exhausted_keys # <<>> /\ key \in Range(Tail(prog.exhausted_keys))

\* line 173
IsExhausted(key, prog) == key \in Range(prog.exhausted_keys)

\* (variant: the list is replaced, not appended to)
MarkExhaustedOnly(prog, key) == [prog EXCEPT !.exhausted_keys = <<key>>]

\* progress["exhausted_keys"].append(key) (lines 184, 198, 209)
MarkExhausted(prog, key) == [prog EXCEPT !.exhausted_keys = Append(@, key)]

\* (variant: the threshold is applied to the running total)
UpdateProgressByTotal(prog, idx, key, images) ==
    LET counted ==
            [prog EXCEPT !.current_key_index = idx,
                         !.total_images_generated = @ + images,
                         !.images_per_key = DictSet(@, KeyName(idx), images)]
    IN  IF counted.total_images_generated < MinImages
        THEN MarkExhausted(counted, key)
        ELSE counted

\* lines 192-198
UpdateProgress(prog, idx, key, images) ==
    LET counted ==
            [prog EXCEPT !.current_key_index = idx,
                         !.total_images_generated = @ + images,
                         !.images_per_key = DictSet(@, KeyName(idx), images)]
    IN  IF images < MinImages THEN MarkExhausted(counted, key) ELSE counted

\* generate_with_key run to its return against a deterministic stub
RECURSIVE GenLoop(_, _, _, _)
GenLoop(loc, max_images, profile, n) ==
    IF loc.exit_reason # "none" THEN loc
    ELSE GenLoop(GenIteration(loc, max_images, StubCall(profile, n + 1)),
                 max_images, profile, n + 1)

generate_with_key(profile) ==
    GenLoop(InitialLocals, DefaultMaxImages, profile, 0).images_generated

\* the for loop of main (lines 168-210) run from index idx to its end, with no
\* interruption and no failing checkpoint write
RECURSIVE RotationPass(_, _, _, _)
RotationPass(keys, stubs, prog, idx) ==
    IF idx >= Len(keys) THEN prog
    ELSE LET k == keys[idx + 1]
         IN  IF IsExhausted(k, prog)
             THEN RotationPass(keys, stubs, prog, idx + 1)
             ELSE IF ~stubs[k].client_ok \/ ~test_api_key(stubs[k].probe)
             THEN RotationPass(keys, stubs, MarkExhausted(prog, k), idx + 1)
             ELSE RotationPass(keys, stubs,
                               UpdateProgress(prog, idx, k, generate_with_key(stubs[k])),
                               idx + 1)

\* ---------------------------------------------------------------- actions
key == all_keys[i + 1]

\* the handler at lines 207-210 has not run in this process
NoFatal == [seen |-> FALSE, probed |-> {}, ran |-> {}]

\* the handler at lines 207-210 runs: what had been probed and run by then
HandlerRan == IF fatal.seen THEN fatal ELSE [seen |-> TRUE, probed |-> probed, ran |-> ran]

ResetMemory ==
    /\ progress' = DefaultProgress
    /\ total_images_start' = 0
    /\ i' = 0
    /\ max_images_per_key' = DefaultMaxImages
    /\ images_generated' = 0
    /\ consecutive_errors' = 0
    /\ sleep_time' = InitialSleep
    /\ requests_made' = 0
    /\ calls' = 0
    /\ exit_reason' = "none"
    /\ error_sleep' = 0
    /\ since_return' = 0
    /\ since_artifact' = 0
    /\ waited' = 0
    /\ loaded_exhausted' = {}
    /\ skipped' = {}
    /\ probed' = {}
    /\ ran' = {}
    /\ probe_failed' = {}
    /\ written_exhausted' = {}
    /\ fatal' = NoFatal
    /\ last_error' = <<>>

Init ==
    /\ all_keys \in KeyLists
    /\ stub \in [Secrets -> Profiles]
    /\ \A s \in Secrets \ Range(all_keys) : stub[s] = UnusedProfile
    /\ file = NoFile
    /\ output_files = 0
    /\ output_dir = {}
    /\ saved_images = 0
    /\ prev_file = NoFile
    /\ new_file = NoFile
    /\ pc = "start"
    /\ runs = 1
    /\ history = <<>>
    /\ faults = 0
    /\ progress = DefaultProgress
    /\ total_images_start = 0
    /\ i = 0
    /\ max_images_per_key = DefaultMaxImages
    /\ images_generated = 0
    /\ consecutive_errors = 0
    /\ sleep_time = InitialSleep
    /\ requests_made = 0
    /\ calls = 0
    /\ exit_reason = "none"
    /\ error_sleep = 0
    /\ since_return = 0
    /\ since_artifact = 0
    /\ waited = 0
    /\ loaded_exhausted = {}
    /\ skipped = {}
    /\ probed = {}
    /\ ran = {}
    /\ probe_failed = {}
    /\ written_exhausted = {}
    /\ fatal = NoFatal
    /\ last_error = <<>>

\* main, lines 146-168: read the keys, load the checkpoint, count the images
Load ==
    /\ pc = "start"
    /\ progress' = load_progress(file)
    /\ total_images_start' = output_files
    /\ i' = load_progress(file).current_key_index
    /\ loaded_exhausted' = Range(load_progress(file).exhausted_keys)
    /\ pc' = "select"
    /\ UNCHANGED <<all_keys, stub, diskVars, runVars, genVars,
                   skipped, probed, ran, probe_failed, written_exhausted,
                   fatal, last_error>>

\* lines 172-175: the key is in exhausted_keys, continue
SkipExhausted ==
    /\ pc = "select"
    /\ i < Len(all_keys)
    /\ IsExhausted(key, progress)
    /\ skipped' = skipped \cup {key}
    /\ i' = i + 1
    /\ UNCHANGED <<all_keys, stub, pc, diskVars, runVars, progress, total_images_start,
                   genVars, loaded_exhausted, probed, ran, probe_failed,
                   written_exhausted, fatal, last_error>>

\* line 179: genai.Client(api_key=key) returns
CreateClient ==
    /\ pc = "select"
    /\ i < Len(all_keys)
    /\ ~IsExhausted(key, progress)
    /\ stub[key].client_ok
    /\ pc' = "probe"
    /\ UNCHANGED <<all_keys, stub, diskVars, runVars, mainVars, genVars, traceVars>>

\* line 179 raises: the handler at lines 207-210
ClientRaises ==
    /\ pc = "select"
    /\ i < Len(all_keys)
    /\ ~IsExhausted(key, progress)
    /\ ~stub[key].client_ok
    /\ progress' = MarkExhausted(progress, key)
    /\ i' = i + 1
    /\ fatal' = HandlerRan
    /\ UNCHANGED <<all_keys, stub, pc, diskVars, runVars, total_images_start,
                   genVars, loaded_exhausted, skipped, probed, ran, probe_failed,
                   written_exhausted, last_error>>

\* lines 182-185: the probe returns False
ProbeFalse ==
    /\ pc = "probe"
    /\ ~test_api_key(stub[key].probe)
    /\ probed' = probed \cup {key}
    /\ probe_failed' = probe_failed \cup {key}
    /\ progress' = MarkExhausted(progress, key)
    /\ i' = i + 1
    /\ pc' = "select"
    /\ UNCHANGED <<all_keys, stub, diskVars, runVars, total_images_start, genVars,
                   loaded_exhausted, skipped, ran, written_exhausted, fatal, last_error>>

\* line 182 (probe returns True) and lines 188, 73-78: generate_with_key starts
ProbeTrue ==
    /\ pc = "probe"
    /\ test_api_key(stub[key].probe)
    /\ probed' = probed \cup {key}
    /\ ran' = ran \cup {key}
    /\ max_images_per_key' = DefaultMaxImages
    /\ images_generated' = InitialLocals.images_generated
    /\ consecutive_errors' = InitialLocals.consecutive_errors
    /\ sleep_time' = InitialLocals.sleep_time
    /\ requests_made' = InitialLocals.requests_made
    /\ exit_reason' = InitialLocals.exit_reason
    /\ error_sleep' = InitialLocals.error_sleep
    /\ calls' = 0
    /\ since_return' = 0
    /\ since_artifact' = 0
    /\ waited' = 0
    /\ last_error' = <<>>
    /\ pc' = "generating"
    /\ UNCHANGED <<all_keys, stub, diskVars, runVars, mainVars,
                   loaded_exhausted, skipped, probe_failed, written_exhausted, fatal>>

Locals ==
    [ images_generated |-> images_generated, consecutive_errors |-> consecutive_errors,
      sleep_time |-> sleep_time, requests_made |-> requests_made,
      exit_reason |-> exit_reason, error_sleep |-> error_sleep ]

\* one pass of the while loop of generate_with_key (lines 80-139) with the
\* given outcome of generate_content; leaving the loop returns (lines 141-142)
Iterate(outcome) ==
    LET next == GenIteration(Locals, max_images_per_key, outcome)
    IN  /\ images_generated' = next.images_generated
        /\ consecutive_errors' = next.consecutive_errors
        /\ sleep_time' = next.sleep_time
        /\ requests_made' = next.requests_made
        /\ exit_reason' = next.exit_reason
        /\ error_sleep' = next.error_sleep
        /\ calls' = calls + 1
        /\ since_return' = IF outcome.kind = "response" THEN 0 ELSE since_return + 1
        /\ since_artifact' = IF outcome.kind = "error" THEN since_artifact + 1
                             ELSE IF outcome.parts > 0 THEN 0 ELSE since_artifact
        /\ waited' = error_sleep + next.sleep_time
        /\ last_error' = IF outcome.kind = "error" THEN outcome.text ELSE <<>>
        /\ output_dir' = SaveImages(output_dir, total_images_start, outcome.parts)
        /\ output_files' = CountFiles(SaveImages(output_dir, total_images_start,
                                                  outcome.parts))
        /\ saved_images' = saved_images + outcome.parts
        /\ pc' = IF next.exit_reason = "none" THEN "generating" ELSE "returned"
        /\ UNCHANGED <<all_keys, stub, file, prev_file, new_file, runVars, mainVars,
                       max_images_per_key, loaded_exhausted, skipped, probed, ran,
                       probe_failed, written_exhausted, fatal>>

\* the loop inside main: the credential's stub decides the outcome
GenerateCall ==
    /\ pc = "generating"
    /\ Iterate(StubCall(stub[key], calls + 1))

\* lines 192-198
CountRun ==
    /\ pc = "returned"
    /\ progress' = UpdateProgress(progress, i, key, images_generated)
    /\ pc' = "save"
    /\ UNCHANGED <<all_keys, stub, diskVars, runVars, total_images_start, i, genVars,
                   traceVars>>

\* save_progress, line 31: open("progress.json", "w") truncates the file
SaveOpen ==
    /\ pc = "save"
    /\ prev_file' = file
    /\ new_file' = Complete(Checkpoint(i, progress.total_images_generated,
                                       progress.images_per_key, progress.exhausted_keys))
    /\ file' = Partial
    /\ pc' = "save_write"
    /\ UNCHANGED <<all_keys, stub, output_files, output_dir, saved_images, runVars, mainVars, genVars, traceVars>>

\* save_progress, line 32: json.dump writes the record and the file is closed
SaveWrite ==
    /\ pc = "save_write"
    /\ file' = new_file
    /\ written_exhausted' = written_exhausted \cup Range(new_file.content.exhausted_keys)
    /\ pc' = "saved"
    /\ UNCHANGED <<all_keys, stub, output_files, output_dir, saved_images, prev_file, new_file, runVars, mainVars,
                   genVars, loaded_exhausted, skipped, probed, ran, probe_failed,
                   fatal, last_error>>

\* save_progress raises (open fails, or the write fails part way): lines 207-210
SaveRaises ==
    /\ pc = "save"
    /\ faults < MaxFaults
    /\ faults' = faults + 1
    /\ \E f \in {file, Partial} : file' = f
    /\ prev_file' = file
    /\ new_file' = Complete(Checkpoint(i, progress.total_images_generated,
                                       progress.images_per_key, progress.exhausted_keys))
    /\ progress' = MarkExhausted(progress, key)
    /\ i' = i + 1
    /\ pc' = "select"
    /\ fatal' = HandlerRan
    /\ UNCHANGED <<all_keys, stub, output_files, output_dir, saved_images, runs, history,
                   total_images_start, genVars, loaded_exhausted, skipped, probed, ran,
                   probe_failed, written_exhausted, last_error>>

\* lines 203-205, then the next iteration of the for loop
NextKey ==
    /\ pc = "saved"
    /\ i' = i + 1
    /\ pc' = "select"
    /\ UNCHANGED <<all_keys, stub, diskVars, runVars, progress, total_images_start,
                   genVars, traceVars>>

\* lines 212-216: the for loop is over
Finish ==
    /\ pc = "select"
    /\ i >= Len(all_keys)
    /\ pc' = "done"
    /\ UNCHANGED <<all_keys, stub, diskVars, runVars, mainVars, genVars, traceVars>>

\* the process is interrupted or killed: its memory is lost, the disk stays
Interrupt ==
    /\ pc \in {"select", "probe", "generating", "returned", "save", "save_write", "saved"}
    /\ pc' = "stopped"
    /\ UNCHANGED <<all_keys, stub, diskVars, runVars, mainVars, genVars, traceVars>>

\* the program is run again
Rerun ==
    /\ pc \in {"done", "stopped"}
    /\ runs >= 1
    /\ runs < MaxRuns
    /\ runs' = runs + 1
    /\ history' = Append(history, pc)
    /\ pc' = "start"
    /\ ResetMemory
    /\ UNCHANGED <<all_keys, stub, diskVars, faults>>

Next ==
    \/ Load
    \/ SkipExhausted
    \/ CreateClient
    \/ ClientRaises
    \/ ProbeFalse
    \/ ProbeTrue
    \/ GenerateCall
    \/ CountRun
    \/ SaveOpen
    \/ SaveWrite
    \/ SaveRaises
    \/ NextKey
    \/ Finish
    \/ Interrupt
    \/ Rerun

Spec == Init /\ [][Next]_vars

\* ------------------------------------------ generate_with_key on its own
\* Every outcome one call of generate_content can have.
Outcomes == {Resp(0), Resp(1), Resp(2)} \cup { Err(t) : t \in ErrorTexts }

MaxImagesChoices == {2, DefaultMaxImages}

\* generate_with_key(client, key_name, contents, output_dir, 0, max_images_per_key)
\* has just been called
InitGen ==
    /\ all_keys = <<"sA">>
    /\ stub = [s \in Secrets |-> Profile(TRUE, Resp(1), <<>>, Resp(1))]
    /\ file = NoFile
    /\ output_files = 0
    /\ output_dir = {}
    /\ saved_images = 0
    /\ prev_file = NoFile
    /\ new_file = NoFile
    /\ pc = "generating"
    /\ runs = 0
    /\ history = <<>>
    /\ faults = 0
    /\ progress = DefaultProgress
    /\ total_images_start = 0
    /\ i = 0
    /\ max_images_per_key \in MaxImagesChoices
    /\ images_generated = InitialLocals.images_generated
    /\ consecutive_errors = InitialLocals.consecutive_errors
    /\ sleep_time = InitialLocals.sleep_time
    /\ requests_made = InitialLocals.requests_made
    /\ exit_reason = InitialLocals.exit_reason
    /\ error_sleep = InitialLocals.error_sleep
    /\ calls = 0
    /\ since_return = 0
    /\ since_artifact = 0
    /\ waited = 0
    /\ loaded_exhausted = {}
    /\ skipped = {}
    /\ probed = {}
    /\ ran = {"sA"}
    /\ probe_failed = {}
    /\ written_exhausted = {}
    /\ fatal = NoFatal
    /\ last_error = <<>>

\* one pass of the while loop, for every outcome of the call
GenerateAny ==
    /\ pc = "generating"
    /\ calls < MaxCalls
    /\ \E outcome \in Outcomes : Iterate(outcome)

SpecGen == InitGen /\ [][GenerateAny]_vars

\* one pass of the while loop of a credential whose calls all return
GenerateOk ==
    /\ pc = "generating"
    /\ calls < MaxOkCalls
    /\ \E outcome \in {o \in Outcomes : o.kind = "response"} : Iterate(outcome)

SpecOk == InitGen /\ [][GenerateOk]_vars

\* ------------------------------------------------------------------ claims
\* what a progress state says: total count, per-credential counts, exhausted set
Tally(prog) ==
    <<prog.total_images_generated, prog.images_per_key, Range(prog.exhausted_keys)>>

\* the pass of this behaviour's keys and stubs, started with no checkpoint and
\* never interrupted
UninterruptedPass == RotationPass(all_keys, stub, DefaultProgress, 0)

\* The functional pass and the step-by-step pass are the same pass: a first
\* run that reaches the end with no failing write ends in UninterruptedPass.
PassAgrees ==
    (pc = "done" /\ runs = 1 /\ faults = 0) => progress = UninterruptedPass

\* C1: every checkpoint on disk has sum(images_per_key.values()) equal to
\* total_images_generated, over any sequence of runs.
C1_SumInvariant ==
    file.state = "complete" =>
        SumValues(file.content.images_per_key) = file.content.total_images_generated

\* C2: a pass that was interrupted and restarted from the checkpoint (any
\* number of times, with no failing write) ends with the total count, the
\* per-credential counts and the exhausted set of the uninterrupted pass.
C2_Resumable ==
    (pc = "done" /\ faults = 0 /\ "done" \notin Range(history)) =>
        Tally(progress) = Tally(UninterruptedPass)

\* C3: a credential in the exhausted set of the checkpoint a run loaded is
\* neither probed nor run by that run.
C3_SkipExhausted == loaded_exhausted \cap (probed \cup ran) = {}

\* a run has met a credential of the loaded exhausted set in its loop, passed
\* it, and worked on another credential
C3_Witness ==
    /\ runs > 1
    /\ skipped \cap loaded_exhausted # {}
    /\ probed # {}

\* C4: within one process the in-memory exhausted set never loses a member,
\* and every checkpoint the process writes contains the members of every
\* checkpoint it wrote before.
C4_MonotonicExhaustion ==
    [][ runs' = runs =>
          /\ Range(progress.exhausted_keys) \subseteq Range(progress'.exhausted_keys)
          /\ (file' # file /\ file'.state = "complete") =>
                written_exhausted \subseteq Range(file'.content.exhausted_keys)
      ]_vars

\* the first run has written a checkpoint with an exhausted credential and then
\* one with two
C4_Witness ==
    /\ runs = 1
    /\ pc = "saved"
    /\ prev_file.state = "complete"
    /\ prev_file.content.exhausted_keys # <<>>
    /\ Cardinality(Range(file.content.exhausted_keys)) >= 2

\* C5: whenever the process has stopped (no write having raised), load_progress
\* returns what it returned before the last save_progress began or what that
\* save_progress was writing.
C5_AtomicSave ==
    (pc = "stopped" /\ faults = 0) =>
        load_progress(file) \in {load_progress(prev_file), load_progress(new_file)}

\* C6: the checkpoint written after a run that ended on a quota error or on the
\* fifth consecutive error has the credential in exhausted_keys.
C6_ExhaustedOnFailure ==
    (pc = "saved" /\ exit_reason \in {"quota", "errors"}) =>
        key \in Range(file.content.exhausted_keys)

\* C7: at the end of the pass the checkpoint on disk has every credential
\* whose probe returned False in exhausted_keys.
C7_ProbeFalsePersisted ==
    (pc = "done" /\ probe_failed # {}) =>
        /\ file.state = "complete"
        /\ probe_failed \subseteq Range(file.content.exhausted_keys)

\* every call of this run so far has raised
AllFailed == calls > 0 /\ since_return = calls

C9_BackoffReachesCap ==
    (AllFailed /\ error_sleep > 0) => error_sleep = Max(sleep_time * 2, ErrorSleepCap)

\* C9 (amended): for a credential whose calls all fail with a non-quota error
\* the wait between attempts never decreases, and the extra wait after a
\* failure is the smaller of twice the base delay and the cap, below the cap.
C9_BackoffCapped ==
    [][ (calls' = calls + 1 /\ since_return' = calls') =>
          /\ waited' >= waited
          /\ error_sleep' > 0 =>
                /\ error_sleep' = Min(sleep_time' * 2, ErrorSleepCap)
                /\ error_sleep' < ErrorSleepCap
          /\ error_sleep' = 0 <=> exit_reason' # "none"
      ]_vars

\* a run of five failing calls, ended by the ceiling, having waited 16 + 8
\* before its last call
C9_Witness ==
    /\ AllFailed
    /\ exit_reason = "errors"
    /\ calls = MaxConsecutiveErrors
    /\ waited = ErrorSleep(InitialSleep) + InitialSleep

\* C10: the wait before call k + 1 of a run uses the base delay
\* 8 + 7 * floor(k / 15), whatever the outcomes of the first k calls.
C10_DelayStepsPerCall ==
    calls > 0 =>
        sleep_time = InitialSleep + SleepIncrement * ((calls - 1) \div RequestsPerStep)

\* C11: in a run whose calls all return, the base delay of the wait goes up
\* after the 15th, 30th, 45th ... call and is the same between those calls.
C11_DelayStepsOnSuccess ==
    [][ calls' = calls + 1 =>
          IF calls > 0 /\ calls % RequestsPerStep = 0
          THEN sleep_time' > sleep_time
          ELSE sleep_time' = sleep_time
      ]_vars

\* the 46th call of such a run has waited with the base delay raised three times
C11_Witness ==
    /\ calls = 3 * RequestsPerStep + 1
    /\ since_return = 0
    /\ sleep_time = InitialSleep + 3 * SleepIncrement

\* C12: starting from an empty output directory, every image.save writes a
\* file name that did not exist: the directory holds one file per save.
C12_NoOverwrite == CountFiles(output_dir) = saved_images

\* a later run, started on a directory that already held images, has saved
\* images for a second credential
C12_Witness ==
    /\ runs > 1
    /\ total_images_start > 0
    /\ i > 0
    /\ pc = "generating"
    /\ images_generated > 0

\* C13: when the process has been interrupted inside a credential's
\* production loop, the checkpoint on disk has the images that credential has
\* produced so far.
C13_InterruptSaves ==
    (pc = "stopped" /\ exit_reason = "none" /\ images_generated > 0) =>
        /\ file.state = "complete"
        /\ KeyName(i) \in DOMAIN file.content.images_per_key
        /\ file.content.images_per_key[KeyName(i)] = images_generated

\* C14: once a Fatal error has occurred (an exception main's handler catches:
\* the client cannot be built, the checkpoint cannot be written), the run is
\* over: no credential is probed or run after it, and when the process has
\* ended the checkpoint on disk is the progress the process had.
C14_FatalAborts ==
    fatal.seen =>
        /\ probed = fatal.probed
        /\ ran = fatal.ran
        /\ pc = "done" =>
              /\ file.state = "complete"
              /\ file.content.exhausted_keys = progress.exhausted_keys
              /\ file.content.total_images_generated = progress.total_images_generated

\* C15: no member of exhausted_keys in the checkpoint on disk is the secret
\* value of a credential.
C15_IdentifiersOnly ==
    file.state = "complete" =>
        \A e \in Range(file.content.exhausted_keys) : e \notin Secrets

\* C16: the probe of a credential answers False exactly when the probe call
\* raised an error whose text the production loop classifies as quota
\* exhaustion; it answers True when the call returned and when it raised any
\* other error.
C16_ProbeClassifies ==
    \A s \in probed :
        (s \in probe_failed) <=>
            (stub[s].probe.kind = "error" /\ IsQuotaError(stub[s].probe.text))

\* in one run a probe has answered False and another probe, whose call raised
\* an error too, has answered True
C16_Witness ==
    /\ probe_failed # {}
    /\ \E s \in probed \ probe_failed : stub[s].probe.kind = "error"

\* C17: when a credential's run has been counted and saved, the credential is
\* in the checkpoint's exhausted set exactly when the run produced fewer than
\* MinImages images; a run that ended at the ceiling is not in it.
C17_ExhaustedBelowMinimum ==
    pc = "saved" =>
        /\ (key \in Range(file.content.exhausted_keys)) <=> (images_generated < MinImages)
        /\ exit_reason = "max" => key \notin Range(file.content.exhausted_keys)

\* a run that ended at the ceiling has been saved after a run that produced
\* fewer than MinImages images was saved
C17_Witness ==
    /\ pc = "saved"
    /\ exit_reason = "max"
    /\ i > 0
    /\ all_keys[1] # key
    /\ all_keys[1] \in ran
    /\ all_keys[1] \in Range(file.content.exhausted_keys)

\* C19: the images one run of generate_with_key has produced never exceed
\* max_images_per_key.
C19_WithinCeiling == images_generated <= max_images_per_key

\* the markers C20 names
ClaimedMarkers ==
    { <<"q", "u", "o", "t", "a">>,
      <<"r", "a", "t", "e">>,
      <<"l", "i", "m", "i", "t">>,
      <<"t", "h", "r", "o", "t", "t", "l", "e">>,
      <<"4", "2", "9">> }

\* the markers of the amended C20
AmendedMarkers ==
    { <<"q", "u", "o", "t", "a">>,
      <<"l", "i", "m", "i", "t">>,
      <<"r", "a", "t", "e">>,
      <<"e", "x", "c", "e", "e", "d", "e", "d">>,
      <<"4", "2", "9">> }

\* the text carries one of the markers, in any letter case
Carries(text, markers) == \E m \in markers : Contains(Lower(text), m)

\* what the loop did with the error its last call raised is what the
\* classification by the given markers asks for: QuotaExhausted ends the run at
\* once; Transient is counted, and the run goes on while the count is below
\* MaxConsecutiveErrors
ClassifiedBy(markers) ==
    last_error # <<>> =>
        IF Carries(last_error, markers)
        THEN exit_reason = "quota"
        ELSE /\ exit_reason \in {"none", "errors"}
             /\ consecutive_errors = since_artifact
             /\ exit_reason = "none" <=> consecutive_errors < MaxConsecutiveErrors

\* C20 (as claimed): errors are classified case-insensitively by the markers
\* quota, rate, limit, throttle and 429: an error carrying one of them is
\* QuotaExhausted, every other error is Transient.
C20_ClaimedMarkers == ClassifiedBy(ClaimedMarkers)

\* C20 (amended): errors are classified case-insensitively by the markers
\* quota, limit, rate, exceeded and 429: an error carrying one of them is
\* QuotaExhausted, every other error (one that only says "Throttle" among
\* them) is Transient.
C20_CodeMarkers == ClassifiedBy(AmendedMarkers)

\* the last call raised the error "Throttle" and the run goes on, after a call
\* that raised a Transient error too
C20_Witness ==
    /\ last_error = TxtThrottle
    /\ consecutive_errors = 2
    /\ exit_reason = "none"

\* ------------------------------- generate_with_key, whether its loop ends
\* The while condition (line 80) and the two breaks (lines 131, 135) read
\* images_generated, consecutive_errors and the error text only.  requests_made
\* is read at line 83 alone, as "requests_made > 0 and requests_made % 15 == 0",
\* and sleep_time only as the length of a sleep, so for the question whether
\* the loop ends they are kept in a finite range that leaves those tests as
\* they are.
FoldRequests(requests) ==
    IF requests > RequestsPerStep THEN requests - RequestsPerStep ELSE requests

LiveSleepCeiling == InitialSleep + 3 * SleepIncrement

FoldSleep(sleep) == Min(sleep, LiveSleepCeiling)

LiveMaxImages == {2, 3}

InitLive ==
    /\ all_keys = <<"sA">>
    /\ stub = [s \in Secrets |-> Profile(TRUE, Resp(1), <<>>, Resp(1))]
    /\ file = NoFile
    /\ output_files = 0
    /\ output_dir = {}
    /\ saved_images = 0
    /\ prev_file = NoFile
    /\ new_file = NoFile
    /\ pc = "generating"
    /\ runs = 0
    /\ history = <<>>
    /\ faults = 0
    /\ progress = DefaultProgress
    /\ total_images_start = 0
    /\ i = 0
    /\ max_images_per_key \in LiveMaxImages
    /\ images_generated = InitialLocals.images_generated
    /\ consecutive_errors = InitialLocals.consecutive_errors
    /\ sleep_time = InitialLocals.sleep_time
    /\ requests_made = InitialLocals.requests_made
    /\ exit_reason = InitialLocals.exit_reason
    /\ error_sleep = InitialLocals.error_sleep
    /\ calls = 0
    /\ since_return = 0
    /\ since_artifact = 0
    /\ waited = 0
    /\ loaded_exhausted = {}
    /\ skipped = {}
    /\ probed = {}
    /\ ran = {"sA"}
    /\ probe_failed = {}
    /\ written_exhausted = {}
    /\ fatal = NoFatal
    /\ last_error = <<>>

\* one pass of the while loop (lines 80-139) with any outcome of the call; the
\* number of calls made is not recorded
GenerateLive ==
    /\ pc = "generating"
    /\ \E outcome \in Outcomes :
         LET next == GenIteration(Locals, max_images_per_key, outcome)
         IN  /\ images_generated' = next.images_generated
             /\ consecutive_errors' = next.consecutive_errors
             /\ sleep_time' = FoldSleep(next.sleep_time)
             /\ requests_made' = FoldRequests(next.requests_made)
             /\ exit_reason' = next.exit_reason
             /\ error_sleep' = next.error_sleep
             /\ since_return' = IF outcome.kind = "response" THEN 0 ELSE since_return + 1
             /\ since_artifact' = IF outcome.kind = "error" THEN since_artifact + 1
                                  ELSE IF outcome.parts > 0 THEN 0 ELSE since_artifact
             /\ waited' = error_sleep + FoldSleep(next.sleep_time)
             /\ last_error' = IF outcome.kind = "error" THEN outcome.text ELSE <<>>
             /\ output_dir' = SaveImages(output_dir, total_images_start, outcome.parts)
             /\ output_files' = CountFiles(SaveImages(output_dir, total_images_start,
                                                       outcome.parts))
             /\ saved_images' = saved_images + outcome.parts
             /\ pc' = IF next.exit_reason = "none" THEN "generating" ELSE "returned"
    /\ UNCHANGED <<all_keys, stub, file, prev_file, new_file, runVars, mainVars,
                   max_images_per_key, calls, loaded_exhausted, skipped, probed, ran,
                   probe_failed, written_exhausted, fatal>>

\* the interpreter goes on with the loop as long as it has not been left
SpecLive == InitLive /\ [][GenerateLive]_vars /\ WF_vars(GenerateLive)

\* C18: whatever the outcomes of its calls are, a run of generate_with_key
\* whose calls all come back (return or raise) leaves its loop and returns.
C18_RunEnds == <>(pc = "returned")

====
